---- MODULE Spec2Model ----
(***************************************************************************)
(* Race of two postal-code lookups against a 1-second deadline.            *)
(*   src/main.go            the aggregating variant (WaitGroup, mutex,     *)
(*                          timing map, detached aggregator goroutine)     *)
(*   src/unnamed/part_000   the simple variant (race only)                 *)
(* Goroutines are interleaved step by step; a step is one suspension point *)
(* or one access to shared state together with the local code up to the    *)
(* next one.  Time is a clock in units of 100 ms.  A timer never fires     *)
(* before its time; nothing forces a runnable goroutine to run at once.    *)
(* When main returns the process exits and every other goroutine stops.    *)
(***************************************************************************)
EXTENDS Integers, Sequences, FiniteSets, TLC

\* ---------------------------------------------------------------- bounds
\* Horizon of the clock, in ticks of 100 ms.  At the horizon the clock stands
\* for every later time, so every timer may fire there.
MaxTime == 3

\* ------------------------------------------------------ program constants
\* context.WithTimeout(..., 1*time.Second), in ticks
Timeout == 10
\* time.After(100 * time.Millisecond), in ticks
Grace == 1
\* time.Sleep(200 * time.Millisecond), in ticks
SleepTime == 2
\* wg.Add(2)
WgAdd == 2
\* A channel with room for one Response only.
ChanCapOne == WgAdd - 1
\* make(chan Response, 2)
ChanCap == 2
\* len(os.Args) < 2
MinArgs == 2
\* http.StatusOK
StatusOK == 200
\* the statuses a backend answers with: http.StatusOK, or not (an unknown code)
Statuses == {StatusOK, 404}

APIs == {"BrasilAPI", "ViaCEP"}

Variants == {"aggregating", "simple"}

\* A well-formed code, and one url.Parse rejects (a control character).
GoodCep == "01153000"
BadCep == "0115\n000"

ArgVectors == {<<"main">>, <<"main", GoodCep>>, <<"main", BadCep>>}

VARIABLES
    variant,        \* which main package runs
    osArgs,         \* os.Args
    now,            \* the clock
    mainPc,         \* position of main
    mainTimer,      \* expiry of main's time.After / time.Sleep timer, -1: none
    result,         \* main's local `result`, <<>> before the first receive
    ctxDeadline,    \* deadline of ctx, -1 before context.WithTimeout
    ctxErr,         \* ctx.Err(): "none", "DeadlineExceeded", "Canceled"
    resultChan,     \* the buffered channel, a FIFO of Responses
    wg,             \* the WaitGroup counter
    timingResults,  \* the timing map
    timingMutex,    \* holder of timingMutex, "" when free
    taskPc,         \* position of each lookup goroutine
    taskStart,      \* each task's startTime
    taskResp,       \* the Response (or the duration) a task is about to publish
    aggPc,          \* position of the aggregator goroutine
    output,         \* the lines printed so far
    published,      \* history: the Responses sent on resultChan, in order
    firstSendCtx    \* history: ctx.Err() at the first send, "" before it

vars == <<variant, osArgs, now, mainPc, mainTimer, result, ctxDeadline, ctxErr,
          resultChan, wg, timingResults, timingMutex, taskPc, taskStart,
          taskResp, aggPc, output, published, firstSendCtx>>

\* ------------------------------------------------------------- data types
NoResp == [APIName |-> "", Error |-> "", Data |-> "", Duration |-> 0]

\* The decoded payload of each backend for a code: two distinct JSON shapes.
BrasilAPICEP(cep) ==
    [type |-> "BrasilAPICEP", Cep |-> cep, State |-> "SP", City |-> "Sao Paulo",
     Neighborhood |-> "Barra Funda", Street |-> "Rua Vitorino Carmilo",
     Service |-> "open-cep"]

ViaCEP(cep) ==
    [type |-> "ViaCEP", Cep |-> cep, Logradouro |-> "Rua Vitorino Carmilo",
     Complemento |-> "", Bairro |-> "Barra Funda", Localidade |-> "Sao Paulo",
     Uf |-> "SP", Ibge |-> "3550308", Gia |-> "1004", Ddd |-> "11",
     Siafi |-> "7107"]

Payload(api, cep) == IF api = "BrasilAPI" THEN BrasilAPICEP(cep) ELSE ViaCEP(cep)

Response(api, err, data, dur) ==
    [APIName |-> api, Error |-> err, Data |-> data, Duration |-> dur]

\* The type switch of main: the address line printed for a payload.
AddressLine(data) ==
    IF data.type = "BrasilAPICEP"
    THEN [kind |-> "address", cep |-> data.Cep, estado |-> data.State,
          cidade |-> data.City, bairro |-> data.Neighborhood, rua |-> data.Street]
    ELSE [kind |-> "address", cep |-> data.Cep, estado |-> data.Uf,
          cidade |-> data.Localidade, bairro |-> data.Bairro,
          rua |-> data.Logradouro]

\* ---------------------------------------------------------------- helpers
Aggregating == variant = "aggregating"

\* The process runs until main returns.
ProcessAlive == mainPc # "done"

\* A timer set for time t has expired.
Expired(t) == now >= t \/ now = MaxTime

\* time.Since(startTime); the simple variant measures nothing.
Since(api) == IF Aggregating THEN now - taskStart[api] ELSE 0

\* http.NewRequestWithContext fails on a URL that does not parse.
BuildFails(cep) == cep = BadCep

Println(lines) == output' = output \o lines

\* ------------------------------------------------------------------- Init
Init ==
    /\ variant \in Variants
    /\ osArgs \in ArgVectors
    /\ now = 0
    /\ mainPc = "start"
    /\ mainTimer = -1
    /\ result = <<>>
    /\ ctxDeadline = -1
    /\ ctxErr = "none"
    /\ resultChan = <<>>
    /\ wg = 0
    /\ timingResults = <<>>
    /\ timingMutex = ""
    /\ taskPc = [a \in APIs |-> "idle"]
    /\ taskStart = [a \in APIs |-> 0]
    /\ taskResp = [a \in APIs |-> NoResp]
    /\ aggPc = "idle"
    /\ output = <<>>
    /\ published = <<>>
    /\ firstSendCtx = ""

\* ------------------------------------------------------------------- main
\* main returns: the deferred cancel() runs and the process exits.
Return ==
    /\ mainPc' = "done"
    /\ ctxErr' = IF ctxDeadline >= 0 /\ ctxErr = "none" THEN "Canceled" ELSE ctxErr

\* MainArgs without the return: the usage hint is printed and main goes on.
MainArgsNoReturn ==
    /\ mainPc = "start"
    /\ IF Len(osArgs) < MinArgs
       THEN Println(<<[kind |-> "usage"]>>)
       ELSE Println(<<[kind |-> "searching", cep |-> osArgs[2]]>>)
    /\ mainPc' = "setup"
    /\ UNCHANGED <<variant, osArgs, now, mainTimer, result, ctxDeadline, ctxErr,
                   resultChan, wg, timingResults, timingMutex, taskPc, taskStart,
                   taskResp, aggPc, published, firstSendCtx>>

\* The argument check, and the first line printed.
MainArgs ==
    /\ mainPc = "start"
    /\ IF Len(osArgs) < MinArgs
       THEN /\ Println(<<[kind |-> "usage"]>>)
            /\ Return
       ELSE /\ Println(<<[kind |-> "searching", cep |-> osArgs[2]]>>)
            /\ mainPc' = "setup"
            /\ UNCHANGED ctxErr
    /\ UNCHANGED <<variant, osArgs, now, mainTimer, result, ctxDeadline, resultChan,
                   wg, timingResults, timingMutex, taskPc, taskStart, taskResp,
                   aggPc, published, firstSendCtx>>

\* MainSetup with the aggregator goroutine started here, before the race.
MainSetupAggregatorEarly ==
    /\ mainPc = "setup"
    /\ ctxDeadline' = now + Timeout
    /\ resultChan' = <<>>
    /\ wg' = IF Aggregating THEN WgAdd ELSE wg
    /\ timingResults' = <<>>
    /\ timingMutex' = ""
    /\ aggPc' = IF Aggregating THEN "wait" ELSE aggPc
    /\ mainPc' = "goBrasilAPI"
    /\ UNCHANGED <<variant, osArgs, now, mainTimer, result, ctxErr, taskPc,
                   taskStart, taskResp, output, published, firstSendCtx>>

\* context.WithTimeout, make(chan Response, 2), wg.Add(2), the map and the mutex.
MainSetup ==
    /\ mainPc = "setup"
    /\ ctxDeadline' = now + Timeout
    /\ resultChan' = <<>>
    /\ wg' = IF Aggregating THEN WgAdd ELSE wg
    /\ timingResults' = <<>>
    /\ timingMutex' = ""
    /\ mainPc' = "goBrasilAPI"
    /\ UNCHANGED <<variant, osArgs, now, mainTimer, result, ctxErr, taskPc,
                   taskStart, taskResp, aggPc, output, published, firstSendCtx>>

\* go fetchBrasilAPI(...)
MainGoBrasilAPI ==
    /\ mainPc = "goBrasilAPI"
    /\ taskPc' = [taskPc EXCEPT !["BrasilAPI"] = "start"]
    /\ mainPc' = "goViaCEP"
    /\ UNCHANGED <<variant, osArgs, now, mainTimer, result, ctxDeadline, ctxErr,
                   resultChan, wg, timingResults, timingMutex, taskStart, taskResp,
                   aggPc, output, published, firstSendCtx>>

\* go fetchViaCEP(...), then main enters the first select.
MainGoViaCEP ==
    /\ mainPc = "goViaCEP"
    /\ taskPc' = [taskPc EXCEPT !["ViaCEP"] = "start"]
    /\ mainPc' = "select"
    /\ UNCHANGED <<variant, osArgs, now, mainTimer, result, ctxDeadline, ctxErr,
                   resultChan, wg, timingResults, timingMutex, taskStart, taskResp,
                   aggPc, output, published, firstSendCtx>>

\* What main prints for a successful first Response.
WinnerLines(r) ==
    << IF Aggregating
       THEN [kind |-> "fastest", api |-> r.APIName, dur |-> r.Duration]
       ELSE [kind |-> "fastest", api |-> r.APIName],
       AddressLine(r.Data) >>

\* MainReceiveFirst without the return of the error branch: the failure is
\* printed and main goes back to waiting for the other backend.
MainReceiveFirstFallback ==
    /\ mainPc = "select"
    /\ resultChan # <<>>
    /\ result' = Head(resultChan)
    /\ resultChan' = Tail(resultChan)
    /\ IF Head(resultChan).Error # ""
       THEN /\ Println(<<[kind |-> "error", api |-> Head(resultChan).APIName,
                                           err |-> Head(resultChan).Error]>>)
            /\ UNCHANGED <<mainPc, ctxErr>>
       ELSE /\ Println(WinnerLines(Head(resultChan)))
            /\ IF Aggregating
               THEN mainPc' = "goAggregator" /\ UNCHANGED ctxErr
               ELSE Return
    /\ UNCHANGED <<variant, osArgs, now, mainTimer, ctxDeadline, wg, timingResults,
                   timingMutex, taskPc, taskStart, taskResp, aggPc, published,
                   firstSendCtx>>

\* MainReceiveFirst of an aggregating main that lets the measured durations
\* decide: with two successes waiting, the one with the smaller Duration is
\* reported, whichever was published first.
MainReceiveFirstByDuration ==
    /\ mainPc = "select"
    /\ resultChan # <<>>
    /\ LET swap == /\ Aggregating
                    /\ Len(resultChan) = 2
                    /\ resultChan[1].Error = "" /\ resultChan[2].Error = ""
                    /\ resultChan[2].Duration < resultChan[1].Duration
           r == IF swap THEN resultChan[2] ELSE resultChan[1]
       IN /\ result' = r
          /\ resultChan' = IF swap THEN <<resultChan[1]>> ELSE Tail(resultChan)
          /\ IF r.Error # ""
             THEN /\ Println(<<[kind |-> "error", api |-> r.APIName, err |-> r.Error]>>)
                  /\ Return
             ELSE /\ Println(WinnerLines(r))
                  /\ IF Aggregating
                     THEN mainPc' = "goAggregator" /\ UNCHANGED ctxErr
                     ELSE Return
    /\ UNCHANGED <<variant, osArgs, now, mainTimer, ctxDeadline, wg, timingResults,
                   timingMutex, taskPc, taskStart, taskResp, aggPc, published,
                   firstSendCtx>>

\* First select, case result := <-resultChan.
MainReceiveFirst ==
    /\ mainPc = "select"
    /\ resultChan # <<>>
    /\ result' = Head(resultChan)
    /\ resultChan' = Tail(resultChan)
    /\ IF Head(resultChan).Error # ""
       THEN /\ Println(<<[kind |-> "error", api |-> Head(resultChan).APIName,
                                           err |-> Head(resultChan).Error]>>)
            /\ Return
       ELSE /\ Println(WinnerLines(Head(resultChan)))
            /\ IF Aggregating
               THEN mainPc' = "goAggregator" /\ UNCHANGED ctxErr
               ELSE Return
    /\ UNCHANGED <<variant, osArgs, now, mainTimer, ctxDeadline, wg, timingResults,
                   timingMutex, taskPc, taskStart, taskResp, aggPc, published, firstSendCtx>>

\* MainTimeout without the return: after the timeout line main falls through
\* to the aggregation, as after a success.
MainTimeoutFallsThrough ==
    /\ mainPc = "select"
    /\ ctxErr # "none"
    /\ Println(<<[kind |-> "timeout"]>>)
    /\ IF Aggregating
       THEN mainPc' = "goAggregator" /\ UNCHANGED ctxErr
       ELSE Return
    /\ UNCHANGED <<variant, osArgs, now, mainTimer, result, ctxDeadline, resultChan,
                   wg, timingResults, timingMutex, taskPc, taskStart, taskResp,
                   aggPc, published, firstSendCtx>>

\* First select, case <-ctx.Done().
MainTimeout ==
    /\ mainPc = "select"
    /\ ctxErr # "none"
    /\ Println(<<[kind |-> "timeout"]>>)
    /\ Return
    /\ UNCHANGED <<variant, osArgs, now, mainTimer, result, ctxDeadline, resultChan,
                   wg, timingResults, timingMutex, taskPc, taskStart, taskResp,
                   aggPc, published, firstSendCtx>>

\* go func() {...}(), then main enters the second select: time.After is armed.
MainGoAggregator ==
    /\ mainPc = "goAggregator"
    /\ aggPc' = "wait"
    /\ mainTimer' = now + Grace
    /\ mainPc' = "select2"
    /\ UNCHANGED <<variant, osArgs, now, result, ctxDeadline, ctxErr, resultChan, wg,
                   timingResults, timingMutex, taskPc, taskStart, taskResp, output,
                   published, firstSendCtx>>

\* MainReceiveSecond handling the second Response like the first: the
\* straggler's failure is printed.
MainReceiveSecondSurfaced ==
    /\ mainPc = "select2"
    /\ resultChan # <<>>
    /\ resultChan' = Tail(resultChan)
    /\ IF Head(resultChan).Error # ""
       THEN Println(<<[kind |-> "error", api |-> Head(resultChan).APIName,
                                        err |-> Head(resultChan).Error]>>)
       ELSE UNCHANGED output
    /\ mainTimer' = now + SleepTime
    /\ mainPc' = "sleep"
    /\ UNCHANGED <<variant, osArgs, now, result, ctxDeadline, ctxErr, wg,
                   timingResults, timingMutex, taskPc, taskStart, taskResp, aggPc,
                   published, firstSendCtx>>

\* Second select, case <-resultChan: the value is discarded; then time.Sleep.
MainReceiveSecond ==
    /\ mainPc = "select2"
    /\ resultChan # <<>>
    /\ resultChan' = Tail(resultChan)
    /\ mainTimer' = now + SleepTime
    /\ mainPc' = "sleep"
    /\ UNCHANGED <<variant, osArgs, now, result, ctxDeadline, ctxErr, wg,
                   timingResults, timingMutex, taskPc, taskStart, taskResp, aggPc,
                   output, published, firstSendCtx>>

\* A second select without the time.After case: only a Response ends it.
MainGraceTimeoutMissing ==
    /\ mainPc = "select2"
    /\ FALSE
    /\ UNCHANGED vars

\* Second select, case <-time.After(100 * time.Millisecond); then time.Sleep.
MainGraceTimeout ==
    /\ mainPc = "select2"
    /\ Expired(mainTimer)
    /\ mainTimer' = now + SleepTime
    /\ mainPc' = "sleep"
    /\ UNCHANGED <<variant, osArgs, now, result, ctxDeadline, ctxErr, resultChan, wg,
                   timingResults, timingMutex, taskPc, taskStart, taskResp, aggPc,
                   output, published, firstSendCtx>>

\* time.Sleep(200 * time.Millisecond) ends and main returns.
MainWake ==
    /\ mainPc = "sleep"
    /\ Expired(mainTimer)
    /\ Return
    /\ UNCHANGED <<variant, osArgs, now, mainTimer, result, ctxDeadline, resultChan,
                   wg, timingResults, timingMutex, taskPc, taskStart, taskResp,
                   aggPc, output, published, firstSendCtx>>

\* ----------------------------------------------------------- lookup tasks
\* The position after the send: the aggregating variant has a deferred wg.Done().
AfterSend == IF Aggregating THEN "wgDone" ELSE "done"

\* Fail with the send left out: the task returns without publishing.
FailDropped(api, err) ==
    /\ taskResp' = [taskResp EXCEPT ![api] = Response(api, err, "", 0)]
    /\ taskPc' = [taskPc EXCEPT ![api] = AfterSend]

\* A failure path: build the failure Response, next statement is the send.
\* The Duration of a failure Response is written and never read (main prints
\* only APIName and Error of a failure): it is kept at 0.
Fail(api, err) ==
    /\ taskResp' = [taskResp EXCEPT ![api] = Response(api, err, "", 0)]
    /\ taskPc' = [taskPc EXCEPT ![api] = "send"]

\* startTime := time.Now() and http.NewRequestWithContext.
TaskStart(api) ==
    /\ ProcessAlive
    /\ taskPc[api] = "start"
    /\ taskStart' = [taskStart EXCEPT ![api] = IF Aggregating THEN now ELSE 0]
    /\ IF BuildFails(osArgs[2])
       THEN Fail(api, "build")
       ELSE /\ taskPc' = [taskPc EXCEPT ![api] = "do"]
            /\ UNCHANGED taskResp
    /\ UNCHANGED <<variant, osArgs, now, mainPc, mainTimer, result, ctxDeadline,
                   ctxErr, resultChan, wg, timingResults, timingMutex, aggPc,
                   output, published, firstSendCtx>>

\* TaskDo for a request built without the context (http.NewRequest): the
\* deadline does not end it, only the network does.
TaskDoIgnoresContext(api) ==
    /\ ProcessAlive
    /\ taskPc[api] = "do"
    /\ \/ Fail(api, "transport")
       \/ \E status \in Statuses :
                IF status # StatusOK
                THEN Fail(api, "status")
                ELSE /\ taskPc' = [taskPc EXCEPT ![api] = "read"]
                     /\ UNCHANGED taskResp
    /\ UNCHANGED <<variant, osArgs, now, mainPc, mainTimer, result, ctxDeadline,
                   ctxErr, resultChan, wg, timingResults, timingMutex, taskStart,
                   aggPc, output, published, firstSendCtx>>

\* client.Do(req) returns, then the status check.  A request whose context is
\* done returns the context's error; otherwise the network decides.
TaskDo(api) ==
    /\ ProcessAlive
    /\ taskPc[api] = "do"
    /\ \/ /\ ctxErr # "none"
          /\ Fail(api, ctxErr)
       \/ /\ ctxErr = "none"
          /\ Fail(api, "transport")
       \/ /\ ctxErr = "none"
          /\ \E status \in Statuses :
                IF status # StatusOK
                THEN Fail(api, "status")
                ELSE /\ taskPc' = [taskPc EXCEPT ![api] = "read"]
                     /\ UNCHANGED taskResp
    /\ UNCHANGED <<variant, osArgs, now, mainPc, mainTimer, result, ctxDeadline,
                   ctxErr, resultChan, wg, timingResults, timingMutex, taskStart,
                   aggPc, output, published, firstSendCtx>>

\* TaskRead with the timing insert left out: a success goes straight to the send.
TaskReadSkipsInsert(api) ==
    /\ ProcessAlive
    /\ taskPc[api] = "read"
    /\ \/ /\ ctxErr # "none"
          /\ Fail(api, ctxErr)
       \/ /\ ctxErr = "none"
          /\ Fail(api, "read")
       \/ /\ ctxErr = "none"
          /\ \E decodes \in BOOLEAN :
                IF ~decodes
                THEN Fail(api, "decode")
                ELSE /\ taskResp' = [taskResp EXCEPT ![api] =
                            Response(api, "", Payload(api, osArgs[2]), Since(api))]
                     /\ taskPc' = [taskPc EXCEPT ![api] = "send"]
    /\ UNCHANGED <<variant, osArgs, now, mainPc, mainTimer, result, ctxDeadline,
                   ctxErr, resultChan, wg, timingResults, timingMutex, taskStart,
                   aggPc, output, published, firstSendCtx>>

\* io.ReadAll(resp.Body) returns, then json.Unmarshal and, on success,
\* duration := time.Since(startTime).
TaskRead(api) ==
    /\ ProcessAlive
    /\ taskPc[api] = "read"
    /\ \/ /\ ctxErr # "none"
          /\ Fail(api, ctxErr)
       \/ /\ ctxErr = "none"
          /\ Fail(api, "read")
       \/ /\ ctxErr = "none"
          /\ \E decodes \in BOOLEAN :
                IF ~decodes
                THEN Fail(api, "decode")
                ELSE /\ taskResp' = [taskResp EXCEPT ![api] =
                            Response(api, "", Payload(api, osArgs[2]), Since(api))]
                     /\ taskPc' = [taskPc EXCEPT ![api] =
                            IF Aggregating THEN "lock" ELSE "send"]
    /\ UNCHANGED <<variant, osArgs, now, mainPc, mainTimer, result, ctxDeadline,
                   ctxErr, resultChan, wg, timingResults, timingMutex, taskStart,
                   aggPc, output, published, firstSendCtx>>

\* TaskLock with mu.Lock() left out: the task goes on to its insert at once.
TaskLockMissing(api) ==
    /\ ProcessAlive
    /\ taskPc[api] = "lock"
    /\ taskPc' = [taskPc EXCEPT ![api] = "insert"]
    /\ UNCHANGED <<variant, osArgs, now, mainPc, mainTimer, result, ctxDeadline,
                   ctxErr, resultChan, wg, timingResults, timingMutex, taskStart,
                   taskResp, aggPc, output, published, firstSendCtx>>

\* mu.Lock()
TaskLock(api) ==
    /\ ProcessAlive
    /\ taskPc[api] = "lock"
    /\ timingMutex = ""
    /\ timingMutex' = api
    /\ taskPc' = [taskPc EXCEPT ![api] = "insert"]
    /\ UNCHANGED <<variant, osArgs, now, mainPc, mainTimer, result, ctxDeadline,
                   ctxErr, resultChan, wg, timingResults, taskStart, taskResp,
                   aggPc, output, published, firstSendCtx>>

\* results[apiName] = duration
MapInsert(m, api, d) ==
    [a \in DOMAIN m \cup {api} |-> IF a = api THEN d ELSE m[a]]

\* TaskInsert with mu.Unlock() left out: the lock is kept across the send.
TaskInsertNoUnlock(api) ==
    /\ ProcessAlive
    /\ taskPc[api] = "insert"
    /\ timingResults' = MapInsert(timingResults, api, taskResp[api].Duration)
    /\ taskPc' = [taskPc EXCEPT ![api] = "send"]
    /\ UNCHANGED <<variant, osArgs, now, mainPc, mainTimer, result, ctxDeadline,
                   ctxErr, resultChan, wg, timingMutex, taskStart, taskResp, aggPc,
                   output, published, firstSendCtx>>

\* results[apiName] = duration; mu.Unlock()
TaskInsert(api) ==
    /\ ProcessAlive
    /\ taskPc[api] = "insert"
    /\ timingResults' = MapInsert(timingResults, api, taskResp[api].Duration)
    /\ timingMutex' = ""
    /\ taskPc' = [taskPc EXCEPT ![api] = "send"]
    /\ UNCHANGED <<variant, osArgs, now, mainPc, mainTimer, result, ctxDeadline,
                   ctxErr, resultChan, wg, taskStart, taskResp, aggPc, output,
                   published, firstSendCtx>>

\* resultChan <- Response{...}: blocks while the buffer is full.
TaskSend(api) ==
    /\ ProcessAlive
    /\ taskPc[api] = "send"
    /\ Len(resultChan) < ChanCap
    /\ resultChan' = Append(resultChan, taskResp[api])
    /\ published' = Append(published, taskResp[api])
    /\ firstSendCtx' = IF published = <<>> THEN ctxErr ELSE firstSendCtx
    /\ taskPc' = [taskPc EXCEPT ![api] = AfterSend]
    /\ UNCHANGED <<variant, osArgs, now, mainPc, mainTimer, result, ctxDeadline,
                   ctxErr, wg, timingResults, timingMutex, taskStart, taskResp,
                   aggPc, output>>

\* The deferred wg.Done() as the task returns.
TaskDone(api) ==
    /\ ProcessAlive
    /\ taskPc[api] = "wgDone"
    /\ wg' = wg - 1
    /\ taskPc' = [taskPc EXCEPT ![api] = "done"]
    /\ UNCHANGED <<variant, osArgs, now, mainPc, mainTimer, result, ctxDeadline,
                   ctxErr, resultChan, timingResults, timingMutex, taskStart,
                   taskResp, aggPc, output, published, firstSendCtx>>

\* ------------------------------------------------------------- aggregator
\* The orders in which `range` may visit the keys of a map.
RangeOrders(m) ==
    {o \in [1..Cardinality(DOMAIN m) -> DOMAIN m] :
        \A i, j \in DOMAIN o : i # j => o[i] # o[j]}

\* The loop with its second test hung on an else: an entry that becomes the
\* fastest is not considered for the slowest.
RECURSIVE FindFastestSlowestElse(_, _, _, _)
FindFastestSlowestElse(m, order, i, acc) ==
    IF i > Len(order) THEN acc
    ELSE LET api == order[i]
             duration == m[api]
             g == IF acc.fastest = "" \/ duration < acc.fastestTime
                  THEN [acc EXCEPT !.fastest = api, !.fastestTime = duration]
                  ELSE IF acc.slowest = "" \/ duration > acc.slowestTime
                  THEN [acc EXCEPT !.slowest = api, !.slowestTime = duration]
                  ELSE acc
         IN FindFastestSlowestElse(m, order, i + 1, g)

\* The min/max loop over the map in the order `order`, from position i on.
RECURSIVE FindFastestSlowest(_, _, _, _)
FindFastestSlowest(m, order, i, acc) ==
    IF i > Len(order) THEN acc
    ELSE LET api == order[i]
             duration == m[api]
             f == IF acc.fastest = "" \/ duration < acc.fastestTime
                  THEN [acc EXCEPT !.fastest = api, !.fastestTime = duration]
                  ELSE acc
             g == IF f.slowest = "" \/ duration > f.slowestTime
                  THEN [f EXCEPT !.slowest = api, !.slowestTime = duration]
                  ELSE f
         IN FindFastestSlowest(m, order, i + 1, g)

ZeroAcc == [fastest |-> "", fastestTime |-> 0, slowest |-> "", slowestTime |-> 0]

\* The comparison block printed for a map with both entries.
ComparisonLines(m, order, order2) ==
    LET r == FindFastestSlowest(m, order, 1, ZeroAcc)
    IN << [kind |-> "fastestAPI", api |-> r.fastest, dur |-> r.fastestTime],
          [kind |-> "slowestAPI", api |-> r.slowest, dur |-> r.slowestTime],
          [kind |-> "difference", dur |-> r.slowestTime - r.fastestTime] >>
       \o [i \in 1..Len(order2) |->
              [kind |-> "timing", api |-> order2[i], dur |-> m[order2[i]]]]

\* AggWait with wg.Wait() left out: the header is printed at once.
AggWaitMissing ==
    /\ ProcessAlive
    /\ aggPc = "wait"
    /\ Println(<<[kind |-> "header"]>>)
    /\ aggPc' = "lock"
    /\ UNCHANGED <<variant, osArgs, now, mainPc, mainTimer, result, ctxDeadline,
                   ctxErr, resultChan, wg, timingResults, timingMutex, taskPc,
                   taskStart, taskResp, published, firstSendCtx>>

\* wg.Wait() returns; the header line is printed.
AggWait ==
    /\ ProcessAlive
    /\ aggPc = "wait"
    /\ wg = 0
    /\ Println(<<[kind |-> "header"]>>)
    /\ aggPc' = "lock"
    /\ UNCHANGED <<variant, osArgs, now, mainPc, mainTimer, result, ctxDeadline,
                   ctxErr, resultChan, wg, timingResults, timingMutex, taskPc,
                   taskStart, taskResp, published, firstSendCtx>>

\* timingMutex.Lock()
AggLock ==
    /\ ProcessAlive
    /\ aggPc = "lock"
    /\ timingMutex = ""
    /\ timingMutex' = "aggregator"
    /\ aggPc' = "report"
    /\ UNCHANGED <<variant, osArgs, now, mainPc, mainTimer, result, ctxDeadline,
                   ctxErr, resultChan, wg, timingResults, taskPc, taskStart,
                   taskResp, output, published, firstSendCtx>>

\* AggReport testing len(timingResults) > 0: one entry is enough to compare.
AggReportOneEntry ==
    /\ ProcessAlive
    /\ aggPc = "report"
    /\ IF Cardinality(DOMAIN timingResults) > 0
       THEN \E order, order2 \in RangeOrders(timingResults) :
                Println(ComparisonLines(timingResults, order, order2))
       ELSE Println(<<[kind |-> "unavailable"]>>)
    /\ timingMutex' = ""
    /\ aggPc' = "done"
    /\ UNCHANGED <<variant, osArgs, now, mainPc, mainTimer, result, ctxDeadline,
                   ctxErr, resultChan, wg, timingResults, taskPc, taskStart,
                   taskResp, published, firstSendCtx>>

\* The read of the map, the block printed, and the deferred Unlock.
AggReport ==
    /\ ProcessAlive
    /\ aggPc = "report"
    /\ IF Cardinality(DOMAIN timingResults) > 1
       THEN \E order, order2 \in RangeOrders(timingResults) :
                Println(ComparisonLines(timingResults, order, order2))
       ELSE Println(<<[kind |-> "unavailable"]>>)
    /\ timingMutex' = ""
    /\ aggPc' = "done"
    /\ UNCHANGED <<variant, osArgs, now, mainPc, mainTimer, result, ctxDeadline,
                   ctxErr, resultChan, wg, timingResults, taskPc, taskStart,
                   taskResp, published, firstSendCtx>>

\* ------------------------------------------------------- clock and deadline
\* 100 ms pass.  The clock starts with the context: before it nothing waits
\* on a timer and nothing measures time.
Tick ==
    /\ ProcessAlive
    /\ ctxDeadline >= 0
    /\ now < MaxTime
    /\ now' = now + 1
    /\ UNCHANGED <<variant, osArgs, mainPc, mainTimer, result, ctxDeadline, ctxErr,
                   resultChan, wg, timingResults, timingMutex, taskPc, taskStart,
                   taskResp, aggPc, output, published, firstSendCtx>>

\* The timer of context.WithTimeout fires: ctx.Done() is closed.
DeadlineFires ==
    /\ ProcessAlive
    /\ ctxDeadline >= 0
    /\ ctxErr = "none"
    /\ Expired(ctxDeadline)
    /\ ctxErr' = "DeadlineExceeded"
    /\ UNCHANGED <<variant, osArgs, now, mainPc, mainTimer, result, ctxDeadline,
                   resultChan, wg, timingResults, timingMutex, taskPc, taskStart,
                   taskResp, aggPc, output, published, firstSendCtx>>

\* ------------------------------------------------------------ specification
MainNext ==
    \/ MainArgs
    \/ MainSetup
    \/ MainGoBrasilAPI
    \/ MainGoViaCEP
    \/ MainReceiveFirst
    \/ MainTimeout
    \/ MainGoAggregator
    \/ MainReceiveSecond
    \/ MainGraceTimeout
    \/ MainWake

TaskNext(api) ==
    \/ TaskStart(api)
    \/ TaskDo(api)
    \/ TaskRead(api)
    \/ TaskLock(api)
    \/ TaskInsert(api)
    \/ TaskSend(api)
    \/ TaskDone(api)

AggNext ==
    \/ AggWait
    \/ AggLock
    \/ AggReport

Next ==
    \/ MainNext
    \/ \E api \in APIs : TaskNext(api)
    \/ AggNext
    \/ Tick
    \/ DeadlineFires

Spec == Init /\ [][Next]_vars

\* Main is scheduled while it can run, the clock advances and the context's
\* timer fires.  Nothing is assumed of the lookup tasks or of the aggregator:
\* a backend may never answer.
FairSpec == Spec /\ WF_vars(MainNext) /\ WF_vars(Tick) /\ WF_vars(DeadlineFires)

\* A task's request or body read is ended by the context being done.
TaskAbort(api) == ctxErr # "none" /\ (TaskDo(api) \/ TaskRead(api))

\* The steps of a task that do not wait for the network.
TaskLocal(api) ==
    \/ TaskStart(api)
    \/ TaskLock(api)
    \/ TaskInsert(api)
    \/ TaskSend(api)
    \/ TaskDone(api)

\* The tasks are scheduled while they can run and a request whose context is
\* done returns; the clock advances and the context's timer fires.  Nothing
\* is assumed of the network (a backend may never answer) nor of main.
TaskFairSpec ==
    /\ Spec
    /\ WF_vars(Tick)
    /\ WF_vars(DeadlineFires)
    /\ \A api \in APIs : WF_vars(TaskAbort(api)) /\ WF_vars(TaskLocal(api))

\* ------------------------------------------------- vocabulary of the claims
Other(api) == CHOOSE b \in APIs : b # api

\* The lines that report the outcome of the race.
IsPrimary(line) == line.kind \in {"fastest", "error", "timeout"}
PrimaryLines == SelectSeq(output, IsPrimary)

Printed(kind) == \E i \in DOMAIN output : output[i].kind = kind
LineOf(kind) == output[CHOOSE i \in DOMAIN output : output[i].kind = kind]

\* The number of sends of a backend's task on resultChan.
Sends(api) == Cardinality({i \in DOMAIN published : published[i].APIName = api})

\* A task has decided its outcome.
Succeeded(api) == taskResp[api].APIName = api /\ taskResp[api].Error = ""
Failed(api) == taskResp[api].Error # ""

\* The lines main prints for a winning Response, variant by variant.
ReportsSuccessOf(r) ==
    /\ Len(PrimaryLines) = 1
    /\ PrimaryLines[1].kind = "fastest"
    /\ PrimaryLines[1].api = r.APIName
    /\ Printed("address")
    /\ LineOf("address") = AddressLine(Payload(r.APIName, osArgs[2]))

\* ------------------------------------------------------------------ claims
\* C1: each lookup task sends exactly one Response on resultChan on every path:
\* a backend's sends number at most 1 in every state, none before the task
\* reaches its send, and exactly 1 once the task is past it or has returned.
C1_ExactlyOneSend ==
    \A api \in APIs :
        /\ Sends(api) <= 1
        /\ taskPc[api] \in {"idle", "start", "do", "read", "lock", "insert", "send"}
              => Sends(api) = 0
        /\ taskPc[api] \in {"wgDone", "done"}
              => /\ Sends(api) = 1
                 /\ \E i \in DOMAIN published : published[i] = taskResp[api]

\* Both tasks have returned, one after a decode error and one after a success.
C1_Witness ==
    \E api \in APIs :
        /\ taskPc[api] = "done" /\ taskResp[api].Error = "decode"
        /\ taskPc[Other(api)] = "done" /\ Succeeded(Other(api))

\* C2: if a backend publishes a success before the other publishes anything
\* and before the deadline fires, the outcome main reports is that success.
C2_FirstSuccessReported ==
    (/\ mainPc = "done"
     /\ published # <<>>
     /\ published[1].Error = ""
     /\ firstSendCtx = "none")
        => ReportsSuccessOf(published[1])

\* C3: if nothing was published when the deadline fired, main reports the
\* timeout and no backend line.  The claim is stated for the case it names:
\* whatever is published afterwards is the context-expired failure of a task
\* that was in flight.
C3_TimeoutReported ==
    (/\ mainPc = "done"
     /\ ctxErr = "DeadlineExceeded"
     /\ \/ published = <<>>
        \/ /\ firstSendCtx = "DeadlineExceeded"
           /\ \A i \in DOMAIN published : published[i].Error = "DeadlineExceeded")
        => (Len(PrimaryLines) = 1 /\ PrimaryLines[1].kind = "timeout")

\* C4: if the first Response main receives carries an error, that backend's
\* failure is the outcome reported: main has returned, the one primary line is
\* that error, and no success or address line is printed, whatever the other
\* backend published.
C4_FirstFailureFinal ==
    (result # <<>> /\ result.Error # "")
        => /\ mainPc = "done"
           /\ PrimaryLines = <<[kind |-> "error", api |-> result.APIName,
                               err |-> result.Error]>>
           /\ ~Printed("fastest") /\ ~Printed("address")
           /\ aggPc = "idle"

\* Main received a failure first while the other backend's success was
\* already waiting in the channel.
C4_Witness ==
    /\ result # <<>> /\ result.Error # ""
    /\ Len(resultChan) = 1
    /\ resultChan[1].Error = ""
    /\ resultChan[1].APIName = Other(result.APIName)

\* C5: resultChan never holds more than its capacity of 2, and whenever a task
\* stands at its send the buffer has room: the send is enabled, whatever main
\* is doing and whether or not the deadline has fired.
C5_SendNeverBlocks ==
    /\ Len(resultChan) <= 2
    /\ \A api \in APIs : taskPc[api] = "send" => Len(resultChan) < ChanCap

\* A task stands at its send after the deadline has fired and after main has
\* stopped reading (it gave up the second receive and sleeps).
C5_Witness ==
    /\ mainPc = "sleep"
    /\ ctxErr = "DeadlineExceeded"
    /\ \E api \in APIs : taskPc[api] = "send" /\ Failed(api)

\* C6: main reports exactly one primary outcome per invocation with an
\* argument: never two primary lines, exactly one once main has returned, the
\* one that the first select chose; a primary line once printed is never
\* changed or followed by another, and the second value read from resultChan
\* prints nothing.
C6_OnePrimaryOutcome ==
    /\ [](/\ Len(PrimaryLines) <= 1
          /\ (mainPc = "done" /\ Len(osArgs) >= MinArgs) => Len(PrimaryLines) = 1
          /\ (mainPc \in {"select2", "sleep"}) => ReportsSuccessOf(result))
    /\ [][PrimaryLines # <<>> => PrimaryLines' = PrimaryLines]_vars
    /\ [][mainPc = "select2" /\ mainPc' = "sleep" => output' = output]_vars

\* Main has read and discarded the straggler's failure after reporting the
\* winner.
C6_Witness ==
    /\ mainPc = "sleep"
    /\ resultChan = <<>>
    /\ Len(published) = 2
    /\ published[2].Error # ""
    /\ ReportsSuccessOf(result)

\* The aggregator's result line: the comparison or 'unavailable'.
AggregatorPrinted == Printed("fastestAPI") \/ Printed("unavailable")

\* Every goroutine that could take a step has taken it: each task started
\* when the context was created and is suspended in its request or body read,
\* or has returned, and the aggregator is blocked in wg.Wait() or has finished.
NothingRunnable ==
    /\ \A api \in APIs : taskPc[api] \in {"do", "read", "done"} /\ taskStart[api] = 0
    /\ \/ aggPc = "wait" /\ wg > 0
       \/ aggPc = "done"

\* C7: whenever main has reported a successful winner, the aggregator has
\* printed its comparative-timing block by the time the process exits.  The
\* claim is stated for the exits most favourable to it, those at which no
\* goroutine was left waiting for the scheduler.
C7_AggregatorPrintsBeforeExit ==
    (Aggregating /\ mainPc = "done" /\ Printed("fastest") /\ NothingRunnable)
        => AggregatorPrinted

\* C8: the process terminates on every path: main returns.
C8_Terminates == <>(mainPc = "done")

\* Main has returned after a successful winner while the straggler is still
\* suspended in its request: the second receive gave up and nothing was joined.
C8_Witness ==
    /\ mainPc = "done"
    /\ Printed("fastest")
    /\ Aggregating
    /\ resultChan = <<>>
    /\ \E api \in APIs : taskPc[api] \in {"do", "read"}
    /\ aggPc = "wait"

\* Exactly one backend succeeded: one task decided for success, the other for
\* a failure.
ExactlyOneSucceeded == \E api \in APIs : Succeeded(api) /\ Failed(Other(api))

\* C9 as stated: in a run where exactly one backend succeeds the aggregating
\* variant reports 'unavailable', whichever Response arrives first.
C9_UnavailableReported ==
    (Aggregating /\ mainPc = "done" /\ ExactlyOneSucceeded)
        => (Printed("unavailable") /\ ~Printed("fastestAPI"))

\* C9 amended: in a run where exactly one backend succeeds no comparison is
\* ever printed; a block the aggregator completes is the 'unavailable' line;
\* and when the failure is the first Response received no block is printed.
C9_NoSingleEntryComparison ==
    (Aggregating /\ ExactlyOneSucceeded)
        => /\ ~Printed("fastestAPI") /\ ~Printed("slowestAPI")
           /\ ~Printed("difference") /\ ~Printed("timing")
           /\ aggPc = "done" => Printed("unavailable")
           /\ (result # <<>> /\ result.Error # "")
                 => (aggPc = "idle" /\ ~Printed("header") /\ ~Printed("unavailable"))

\* The aggregator has printed 'unavailable' with one entry in the map, after
\* the success arrived first and the other backend failed.
C9_Witness ==
    /\ ExactlyOneSucceeded
    /\ aggPc = "done"
    /\ Printed("unavailable")
    /\ Cardinality(DOMAIN timingResults) = 1

\* C10: when the aggregator has read a map holding two durations d1 < d2, the
\* fastest printed is the backend of d1 with d1, the slowest the backend of d2
\* with d2 and the difference d2 - d1, whatever order the map was ranged in.
C10_FastestSlowestDifference ==
    \A lo \in APIs :
        (/\ aggPc = "done"
         /\ DOMAIN timingResults = APIs
         /\ timingResults[lo] < timingResults[Other(lo)])
            => /\ Printed("fastestAPI") /\ Printed("slowestAPI")
               /\ Printed("difference")
               /\ LineOf("fastestAPI") =
                     [kind |-> "fastestAPI", api |-> lo, dur |-> timingResults[lo]]
               /\ LineOf("slowestAPI") =
                     [kind |-> "slowestAPI", api |-> Other(lo),
                      dur |-> timingResults[Other(lo)]]
               /\ LineOf("difference") =
                     [kind |-> "difference",
                      dur |-> timingResults[Other(lo)] - timingResults[lo]]

\* The aggregator has reported on a map whose two durations differ, the
\* entry visited first by the loop being the slower one or the faster one.
C10_Witness ==
    /\ aggPc = "done"
    /\ DOMAIN timingResults = APIs
    /\ timingResults["BrasilAPI"] > timingResults["ViaCEP"]
    /\ Printed("difference")
    /\ LineOf("difference").dur > 0

\* The position in the output of the first line of a kind, 0 if there is none.
IndexOf(kind) ==
    IF Printed(kind) THEN CHOOSE i \in DOMAIN output : output[i].kind = kind ELSE 0

AggregatorLineKinds ==
    {"header", "unavailable", "fastestAPI", "slowestAPI", "difference", "timing"}

\* C11: the winner is reported before any aggregation work begins and without
\* waiting for the other task: a successful first Response is printed in the
\* step that receives it, and the aggregator is started, the second receive
\* attempted and every line of the comparative block printed only after it.
C11_WinnerReportedFirst ==
    /\ (result # <<>> /\ result.Error = "") => ReportsSuccessOf(result)
    /\ (aggPc # "idle" \/ mainPc \in {"goAggregator", "select2", "sleep"})
          => ReportsSuccessOf(result)
    /\ \A i \in DOMAIN output :
          output[i].kind \in AggregatorLineKinds
             => (Printed("fastest") /\ IndexOf("fastest") < i
                 /\ IndexOf("address") < i)

\* The winner is reported while the other task is still suspended in its
\* request and the aggregator has not been started.
C11_Witness ==
    /\ mainPc = "goAggregator"
    /\ aggPc = "idle"
    /\ ReportsSuccessOf(result)
    /\ taskPc[Other(result.APIName)] = "do"

\* C13: without a postal-code argument main prints the usage hint and returns:
\* no context, no channel content, no WaitGroup count, no task ever launched,
\* no send, and nothing printed but the hint.
C13_NoArgumentNoWork ==
    Len(osArgs) < MinArgs
        => /\ mainPc \in {"start", "done"}
           /\ ctxDeadline = -1 /\ ctxErr = "none"
           /\ \A api \in APIs : taskPc[api] = "idle" /\ taskResp[api] = NoResp
           /\ resultChan = <<>> /\ published = <<>>
           /\ wg = 0 /\ aggPc = "idle"
           /\ mainPc = "start" => output = <<>>
           /\ mainPc = "done" => output = <<[kind |-> "usage"]>>

\* Main has returned after the usage hint.
C13_Witness ==
    /\ Len(osArgs) < MinArgs
    /\ mainPc = "done"
    /\ Printed("usage")

\* C18: in the aggregating variant, once a backend failure or the timeout is
\* reported main has returned: no second receive (the channel lost at most
\* the one Response of the first select), no timer armed for the grace wait or
\* the sleep, no aggregator goroutine, and no line of the comparative block.
C18_FailureOrTimeoutReturns ==
    (Aggregating /\ (Printed("error") \/ Printed("timeout")))
        => /\ mainPc = "done"
           /\ aggPc = "idle"
           /\ mainTimer = -1
           /\ Len(published) - Len(resultChan) = (IF Printed("error") THEN 1 ELSE 0)
           /\ \A i \in DOMAIN output : output[i].kind \notin AggregatorLineKinds

\* The timeout was reported in the aggregating variant with a Response left
\* unread in the channel.
C18_Witness ==
    /\ Aggregating
    /\ Printed("timeout")
    /\ mainPc = "done"
    /\ Len(resultChan) = 1

\* The goroutines inside a critical section of timingMutex.
InCriticalSection ==
    {api \in APIs : taskPc[api] = "insert"}
        \cup (IF aggPc = "report" THEN {"aggregator"} ELSE {})

\* C14: every access to the timing map is made holding timingMutex, so no two
\* accesses overlap, and no entry is lost: once both tasks have returned after
\* succeeding the map holds exactly the entries BrasilAPI and ViaCEP, each
\* with the duration its task measured.
C14_MapAccessUnderLock ==
    Aggregating =>
        /\ \A g \in InCriticalSection : timingMutex = g
        /\ Cardinality(InCriticalSection) <= 1
        /\ (\A api \in APIs : taskPc[api] = "done" /\ Succeeded(api))
              => /\ DOMAIN timingResults = APIs
                 /\ \A api \in APIs : timingResults[api] = taskResp[api].Duration

\* Both tasks have returned after succeeding, with different durations.
C14_Witness ==
    /\ \A api \in APIs : taskPc[api] = "done" /\ Succeeded(api)
    /\ DOMAIN timingResults = APIs
    /\ timingResults["BrasilAPI"] # timingResults["ViaCEP"]

\* The tasks that have not returned yet.
Running == {api \in APIs : taskPc[api] # "done"}

\* C15: the aggregator reads the map only after quiescence: from the moment
\* wg.Wait() has returned both tasks have returned, each after its insert and
\* its send, so the map no longer changes; the WaitGroup counter is 2 after
\* wg.Add(2), never negative, and equals the number of tasks still to return.
C15_ReadAfterQuiescence ==
    (Aggregating /\ ctxDeadline >= 0) =>
        /\ wg >= 0
        /\ wg = Cardinality(Running)
        /\ mainPc = "goBrasilAPI" => wg = 2
        /\ aggPc \in {"lock", "report", "done"}
              => /\ wg = 0
                 /\ \A api \in APIs :
                       /\ taskPc[api] = "done"
                       /\ Sends(api) = 1
                       /\ Succeeded(api) <=> api \in DOMAIN timingResults

\* The aggregator holds the lock for its read with both tasks returned.
C15_Witness ==
    /\ aggPc = "report"
    /\ wg = 0
    /\ \A api \in APIs : taskPc[api] = "done"
    /\ Cardinality(DOMAIN timingResults) = 1

\* The success Responses sent so far (in the channel or already received).
SuccessesPublished == {i \in DOMAIN published : published[i].Error = ""}

\* C16: a task writes its duration into the map if and only if it succeeded,
\* and before it publishes: every success Response sent has its backend's
\* entry in the map with the same duration, a task that failed has no entry,
\* and an entry belongs to a task that succeeded.
C16_InsertBeforePublish ==
    Aggregating =>
        /\ \A i \in SuccessesPublished :
              /\ published[i].APIName \in DOMAIN timingResults
              /\ timingResults[published[i].APIName] = published[i].Duration
        /\ \A api \in APIs :
              /\ Failed(api) => api \notin DOMAIN timingResults
              /\ api \in DOMAIN timingResults
                    => (Succeeded(api) /\ taskPc[api] \in {"send", "wgDone", "done"})
              /\ (Succeeded(api) /\ taskPc[api] \in {"send", "wgDone", "done"})
                    => api \in DOMAIN timingResults

\* A success waits unread in the channel, its entry already in the map, while
\* the other task has failed and written nothing.
C16_Witness ==
    /\ Aggregating
    /\ resultChan # <<>>
    /\ resultChan[1].Error = ""
    /\ resultChan[1].APIName \in DOMAIN timingResults
    /\ Failed(Other(resultChan[1].APIName))
    /\ taskPc[Other(resultChan[1].APIName)] = "done"

\* C17: timingMutex is held only for one insert by a task or the final read of
\* the aggregator: a task holds it only between mu.Lock() and mu.Unlock(),
\* never while suspended on the network or sending; and the holder's next
\* step, which releases the lock, is never blocked while the process runs.
C17_LockHeldBriefly ==
    /\ timingMutex \in {""} \cup APIs \cup {"aggregator"}
    /\ \A api \in APIs :
          /\ timingMutex = api => taskPc[api] = "insert"
          /\ taskPc[api] \in {"idle", "start", "do", "read", "lock", "send",
                              "wgDone", "done"} => timingMutex # api
          /\ (timingMutex = api /\ ProcessAlive) => ENABLED TaskInsert(api)
    /\ timingMutex = "aggregator" => aggPc = "report"
    /\ (timingMutex = "aggregator" /\ ProcessAlive) => ENABLED AggReport

\* A task holds the lock for its insert while the other waits at mu.Lock().
C17_Witness ==
    \E api \in APIs :
        /\ timingMutex = api
        /\ taskPc[api] = "insert"
        /\ taskPc[Other(api)] = "lock"

\* A task is suspended in its request or body read with the context done.
InFlightAfterDeadline(api) == ctxErr # "none" /\ taskPc[api] \in {"do", "read"}

\* A task has returned after publishing the context's error.
ReturnedWithContextError(api) ==
    /\ taskPc[api] = "done"
    /\ taskResp[api].Error \in {"DeadlineExceeded", "Canceled"}
    /\ \E i \in DOMAIN published : published[i] = taskResp[api]

\* C12 as stated: once the deadline has fired, every task still suspended in
\* its request or body read publishes a failure Response and returns.
C12_TasksReturnAfterDeadline ==
    \A api \in APIs : InFlightAfterDeadline(api) ~> ReturnedWithContextError(api)

\* C12 amended: once the deadline has fired a suspended task can leave its
\* suspension only through the error path, carrying the context's error; and
\* it then publishes that failure and returns, unless main returns first and
\* the process exits with the task still in flight.
C12_AbortAfterDeadline ==
    /\ [][\A api \in APIs :
            (InFlightAfterDeadline(api) /\ taskPc'[api] # taskPc[api])
                => (taskPc'[api] = "send" /\ taskResp'[api].Error = ctxErr)]_vars
    /\ \A api \in APIs :
          InFlightAfterDeadline(api)
              ~> (ReturnedWithContextError(api) \/ mainPc = "done")

\* The deadline has fired and a task has returned through the error path
\* while the process is still running.
C12_Witness ==
    /\ ProcessAlive
    /\ ctxErr = "DeadlineExceeded"
    /\ \E api \in APIs : ReturnedWithContextError(api)

\* Main has left its first select.
RaceDecided == mainPc \in {"goAggregator", "select2", "sleep", "done"}
                  /\ Len(osArgs) >= MinArgs

\* The outcome of the race as a function of the schedule alone: the order of
\* the publications and the case the first select took (a receive, which
\* takes the first Response published, or ctx.Done()).  Nothing in it depends
\* on the variant.
OutcomeOfSchedule ==
    IF result = <<>>
    THEN [kind |-> "timeout", api |-> "", err |-> ""]
    ELSE IF published[1].Error # ""
    THEN [kind |-> "error", api |-> published[1].APIName, err |-> published[1].Error]
    ELSE [kind |-> "fastest", api |-> published[1].APIName, err |-> ""]

\* The outcome a run has printed, without the duration the aggregating
\* variant adds to the winner's line.
OutcomeReported ==
    LET l == PrimaryLines[1]
    IN [kind |-> l.kind,
        api |-> IF l.kind = "timeout" THEN "" ELSE l.api,
        err |-> IF l.kind = "error" THEN l.err ELSE ""]

\* C19: the two variants agree on the primary outcome: in either variant the
\* outcome reported is the same function of the order of publications, the
\* deadline and the case the first select took; on a success the address
\* printed is the winner's payload; the timeout is only reported with the
\* context done.
C19_VariantsAgree ==
    \A v \in Variants :
        (variant = v /\ RaceDecided)
            => /\ Len(PrimaryLines) = 1
               /\ OutcomeReported = OutcomeOfSchedule
               /\ OutcomeReported.kind = "fastest"
                     => LineOf("address") =
                           AddressLine(Payload(published[1].APIName, osArgs[2]))
               /\ OutcomeReported.kind # "fastest" => ~Printed("address")
               /\ OutcomeReported.kind = "timeout" => ctxErr = "DeadlineExceeded"

\* The aggregating main has reported the success published first although
\* the success published second measured a smaller duration.
C19_Witness ==
    /\ Aggregating
    /\ RaceDecided
    /\ Len(published) = 2
    /\ published[1].Error = "" /\ published[2].Error = ""
    /\ published[2].Duration < published[1].Duration
    /\ OutcomeReported.kind = "fastest"
    /\ OutcomeReported.api = published[1].APIName
====
